---- MODULE Spec2Model ----
(***************************************************************************)
(* A model of djpjax.py: the pjax_block / pjax / pjaxtend view decorators, *)
(* PJAXResponseMixin.get_template_names, the template-name rewriting       *)
(* helpers, and PJAXBlockTemplateResponse.rendered_content together with   *)
(* PJAXBlockNodeList.render over a parsed template tree that is shared by  *)
(* all requests.                                                           *)
(*                                                                         *)
(* Python values are tagged records; a Python string is a sequence of      *)
(* one-character strings, a dict is a function whose domain is its keys.   *)
(*                                                                         *)
(* The template framework is the environment of this code. Of it the model *)
(* keeps what the code relies on: a template is a tree of nodes; a block,  *)
(* a {% with %} and an {% if %} node expose their children as `nodelist`,  *)
(* a {% for %} node keeps them under another attribute and a text node has *)
(* none; rendering a nodelist joins its nodes' output; a key stored in     *)
(* context.render_context before template.render is found by the nodes    *)
(* rendered inside it; context[key] raises KeyError for a missing key.     *)
(* The source is Python 2 (basestring names every string type).            *)
(***************************************************************************)
EXTENDS Integers, Sequences, FiniteSets, TLC

VARIABLES
    made,         \* the pjax_block(...) call being followed: arguments, result, use
    call,         \* the request being followed: the view's response, before and after
    rendered,     \* the last evaluation of resp.rendered_content
    tree,         \* which parsed template the shared template object holds
    nlClass,      \* node id -> __class__ of that node's nodelist
    nlBlockName   \* node id -> block_name attribute of that node's nodelist

vars == <<made, call, rendered, tree, nlClass, nlBlockName>>

-----------------------------------------------------------------------------
(* Bounds of the model *)

\* the longest list a {% for %} tag loops over
MaxLoop == 2
\* the longest list/tuple of template names a view or mixin hands over
MaxNames == 2

-----------------------------------------------------------------------------
(* Python values *)

PyNone == [t |-> "none"]
PyFalse == [t |-> "bool", b |-> FALSE]
PyTrue == [t |-> "bool", b |-> TRUE]
PyStr(s) == [t |-> "str", s |-> s]
PyInt(n) == [t |-> "int", n |-> n]
PyList(items) == [t |-> "list", items |-> items]
PyTuple(items) == [t |-> "tuple", items |-> items]
\* an attribute the object does not have
NoAttr == [t |-> "noattr"]
\* an exception leaving the function
Raise(exc, about, name) == [t |-> "raise", exc |-> exc, about |-> about, name |-> name]
EmptyDict == [k \in {} |-> PyNone]

\* Python truth value testing, as used by `if x`, `x and y`, `a if x else b`
Truthy(v) ==
    CASE v.t = "none" -> FALSE
      [] v.t = "bool" -> v.b
      [] v.t = "str" -> v.s # <<>>
      [] v.t = "int" -> v.n # 0
      [] v.t = "list" -> v.items # <<>>
      [] v.t = "tuple" -> v.items # <<>>
      [] OTHER -> TRUE

\* d.get(key, default)
DictGet(d, key, default) == IF key \in DOMAIN d THEN d[key] ELSE default

\* d[key] = value
DictSet(d, key, value) == [k \in DOMAIN d \cup {key} |-> IF k = key THEN value ELSE d[k]]

RECURSIVE Digits(_)
Digits(n) == IF n < 10
             THEN <<SubSeq(<<"0","1","2","3","4","5","6","7","8","9">>, n + 1, n + 1)[1]>>
             ELSE Digits(n \div 10) \o Digits(n % 10)

\* "%s" % v : the text of v
FormatS(v) ==
    CASE v.t = "str" -> v.s
      [] v.t = "int" -> IF v.n < 0 THEN <<"-">> \o Digits(0 - v.n) ELSE Digits(v.n)
      [] v.t = "none" -> <<"N","o","n","e">>
      [] v.t = "bool" -> IF v.b THEN <<"T","r","u","e">> ELSE <<"F","a","l","s","e">>

-----------------------------------------------------------------------------
(* Template names: _pjaxify_template_name, _pjaxify_template_var *)

RECURSIVE LastDot(_, _)
\* the index of the last "." among the first i characters of s, 0 if none
LastDot(s, i) == IF i = 0 THEN 0 ELSE IF s[i] = "." THEN i ELSE LastDot(s, i - 1)

\* _pjaxify_template_name(name): "%s-pjax.%s" % tuple(name.rsplit('.', 1)), or
\* name + "-pjax" when the name holds no "."
pjaxify_template_name(name) ==
    LET d == LastDot(name.s, Len(name.s)) IN
    IF d > 0
    THEN PyStr(SubSeq(name.s, 1, d - 1) \o <<"-","p","j","a","x",".">>
               \o SubSeq(name.s, d + 1, Len(name.s)))
    ELSE PyStr(name.s \o <<"-","p","j","a","x">>)

\* _pjaxify_template_var(template_var): lists and tuples keep their type
pjaxify_template_var(template_var) ==
    IF template_var.t \in {"list", "tuple"}
    THEN [t |-> template_var.t,
          items |-> [i \in 1..Len(template_var.items) |->
                        pjaxify_template_name(template_var.items[i])]]
    ELSE IF template_var.t = "str"
    THEN pjaxify_template_name(template_var)
    ELSE template_var

-----------------------------------------------------------------------------
(* Requests and responses *)

HTTP_X_PJAX == "HTTP_X_PJAX"

\* request.META.get('HTTP_X_PJAX', False)
PjaxHeader(META) == DictGet(META, HTTP_X_PJAX, PyFalse)

\* what an undecorated view returns: a TemplateResponse
TemplateResponse(template_name, context_data) ==
    [cls |-> "TemplateResponse",
     template_name |-> template_name,
     context_data |-> context_data,
     block_name |-> NoAttr,
     title_variable |-> NoAttr,
     title_block |-> NoAttr]

\* as pjax_block, but without the check of the two title arguments
pjax_block_AlwaysDecorator(block, title_variable, title_block) ==
    [t |-> "decorator", block |-> block,
     title_variable |-> title_variable, title_block |-> title_block]

\* pjax_block(block, title_variable, title_block): the decorator, or TypeError
pjax_block(block, title_variable, title_block) ==
    IF Truthy(title_variable) /\ Truthy(title_block)
    THEN Raise("TypeError", "pjax decorator", PyNone)
    ELSE [t |-> "decorator", block |-> block,
          title_variable |-> title_variable, title_block |-> title_block]

\* as pjax_block_view, but altering the response whatever the header
pjax_block_view_IgnoreHeader(deco, META, resp) ==
    [resp EXCEPT !.cls = "PJAXBlockTemplateResponse",
                 !.block_name = deco.block,
                 !.title_variable = deco.title_variable,
                 !.title_block = deco.title_block]

\* pjax_block(...)(view)'s _view, given the response `resp` the view returned
pjax_block_view(deco, META, resp) ==
    IF Truthy(PjaxHeader(META))
    THEN [resp EXCEPT !.cls = "PJAXBlockTemplateResponse",
                      !.block_name = deco.block,
                      !.title_variable = deco.title_variable,
                      !.title_block = deco.title_block]
    ELSE resp

\* as pjax_view, but deriving the name even when pjax_template is given
pjax_view_AlwaysDerive(pjax_template, META, resp) ==
    IF Truthy(PjaxHeader(META))
    THEN [resp EXCEPT !.template_name = pjaxify_template_var(resp.template_name)]
    ELSE resp

\* pjax(pjax_template)(view)'s _view
pjax_view(pjax_template, META, resp) ==
    IF Truthy(PjaxHeader(META))
    THEN IF Truthy(pjax_template)
         THEN [resp EXCEPT !.template_name = pjax_template]
         ELSE [resp EXCEPT !.template_name = pjaxify_template_var(resp.template_name)]
    ELSE resp

\* as pjaxtend_view, but with `else` for `elif parent`
pjaxtend_view_NoParentCheck(parent, pjax_parent, context_var, META, resp) ==
    IF Truthy(PjaxHeader(META))
    THEN [resp EXCEPT !.context_data = DictSet(resp.context_data, context_var, pjax_parent)]
    ELSE [resp EXCEPT !.context_data = DictSet(resp.context_data, context_var, parent)]

\* pjaxtend(parent, pjax_parent, context_var)(view)'s _view
pjaxtend_view(parent, pjax_parent, context_var, META, resp) ==
    IF Truthy(PjaxHeader(META))
    THEN [resp EXCEPT !.context_data = DictSet(resp.context_data, context_var, pjax_parent)]
    ELSE IF Truthy(parent)
    THEN [resp EXCEPT !.context_data = DictSet(resp.context_data, context_var, parent)]
    ELSE resp

\* PJAXResponseMixin.get_template_names, given the parent implementation's names
get_template_names(pjax_template_name, META, names) ==
    IF Truthy(PjaxHeader(META))
    THEN IF Truthy(pjax_template_name)
         THEN PyList(<<pjax_template_name>>)
         ELSE pjaxify_template_var(names)
    ELSE names

-----------------------------------------------------------------------------
(* The parsed template: a tree of nodes *)

TextNode(text) == [kind |-> "TextNode", name |-> PyNone, text |-> text, kids |-> <<>>, var |-> PyNone]
BlockNode(name, kids) == [kind |-> "BlockNode", name |-> PyStr(name), text |-> <<>>, kids |-> kids, var |-> PyNone]
WithNode(kids) == [kind |-> "WithNode", name |-> PyNone, text |-> <<>>, kids |-> kids, var |-> PyNone]
IfNode(var, kids) == [kind |-> "IfNode", name |-> PyNone, text |-> <<>>, kids |-> kids, var |-> PyStr(var)]
ForNode(var, kids) == [kind |-> "ForNode", name |-> PyNone, text |-> <<>>, kids |-> kids, var |-> PyStr(var)]

\* hasattr(node, "nodelist"): a ForNode keeps its children in nodelist_loop,
\* a TextNode has none
HasNodelist(node) == node.kind \in {"BlockNode", "WithNode", "IfNode"}

Content == <<"c">>
Title == <<"t">>
Side == <<"s">>

\*  a {% block c %}b{% block t %}T{% endblock %}{% endblock %} z
NestedTemplate ==
    [root |-> <<1, 2, 6>>,
     nodes |-> <<TextNode(<<"a">>), BlockNode(Content, <<3, 4>>), TextNode(<<"b">>),
                 BlockNode(Title, <<5>>), TextNode(<<"T">>), TextNode(<<"z">>)>>]

\*  {% block t %}T{% endblock %}{% with %}{% block c %}b{% endblock %}{% endwith %} z
SiblingTemplate ==
    [root |-> <<1, 3, 6>>,
     nodes |-> <<BlockNode(Title, <<2>>), TextNode(<<"T">>), WithNode(<<4>>),
                 BlockNode(Content, <<5>>), TextNode(<<"b">>), TextNode(<<"z">>)>>]

\*  {% if show %}{% block c %}b{% endblock %}{% endif %}
\*  {% for i in items %}{% block s %}q{% endblock %}{% endfor %}{% block t %}{% endblock %}
GuardedTemplate ==
    [root |-> <<1, 4, 7>>,
     nodes |-> <<IfNode(<<"s","h","o","w">>, <<2>>), BlockNode(Content, <<3>>), TextNode(<<"b">>),
                 ForNode(<<"i","t","e","m","s">>, <<5>>), BlockNode(Side, <<6>>),
                 TextNode(<<"q">>), BlockNode(Title, <<>>)>>]

Templates == <<NestedTemplate, SiblingTemplate, GuardedTemplate>>

\* the nodelists of a freshly parsed template: plain NodeLists without block_name
FreshNodelists(T) ==
    [cls |-> [id \in DOMAIN T.nodes |-> "NodeList"],
     bname |-> [id \in DOMAIN T.nodes |-> NoAttr]]

-----------------------------------------------------------------------------
(* Rendering: NodeList.render, PJAXBlockNodeList.render, rendered_content *)

CapturedKey == "pjax_captured_blocks"

RECURSIVE NodeList_render(_, _, _, _, _)
RECURSIVE Node_render(_, _, _, _, _)
RECURSIVE Loop_render(_, _, _, _, _, _)
RECURSIVE patch_tree(_, _, _, _)

\* PJAXBlockNodeList.render of block node `id`: render as a NodeList, then store
\* the result under block_name if the render context holds the capture dict
PJAXBlockNodeList_render(T, id, context, rc, st) ==
    LET r == NodeList_render(T, T.nodes[id].kids, context, rc, st) IN
    IF CapturedKey \in DOMAIN r.rc
    THEN [out |-> r.out,
          rc |-> [r.rc EXCEPT ![CapturedKey] = DictSet(@, st.bname[id], PyStr(r.out))]]
    ELSE r

\* the nodelist of block node `id` rendered by the render method of its class
BlockNodelist_render(T, id, context, rc, st) ==
    IF st.cls[id] = "PJAXBlockNodeList"
    THEN PJAXBlockNodeList_render(T, id, context, rc, st)
    ELSE NodeList_render(T, T.nodes[id].kids, context, rc, st)

\* the body of a {% for %} rendered n more times
Loop_render(T, kids, n, context, rc, st) ==
    IF n = 0 THEN [out |-> <<>>, rc |-> rc]
    ELSE LET a == NodeList_render(T, kids, context, rc, st)
             b == Loop_render(T, kids, n - 1, context, a.rc, st)
         IN [out |-> a.out \o b.out, rc |-> b.rc]

\* node.render(context)
Node_render(T, id, context, rc, st) ==
    LET node == T.nodes[id]
        value == DictGet(context, node.var, PyNone)
    IN CASE node.kind = "TextNode" -> [out |-> node.text, rc |-> rc]
         [] node.kind = "BlockNode" -> BlockNodelist_render(T, id, context, rc, st)
         [] node.kind = "WithNode" -> NodeList_render(T, node.kids, context, rc, st)
         [] node.kind = "IfNode" ->
                IF Truthy(value) THEN NodeList_render(T, node.kids, context, rc, st)
                ELSE [out |-> <<>>, rc |-> rc]
         [] node.kind = "ForNode" ->
                Loop_render(T, node.kids,
                            IF value.t = "list" THEN Len(value.items) ELSE 0,
                            context, rc, st)

\* NodeList.render: the nodes' output joined, left to right
NodeList_render(T, nodelist, context, rc, st) ==
    IF nodelist = <<>> THEN [out |-> <<>>, rc |-> rc]
    ELSE LET a == Node_render(T, Head(nodelist), context, rc, st)
             b == NodeList_render(T, Tail(nodelist), context, a.rc, st)
         IN [out |-> a.out \o b.out, rc |-> b.rc]

\* patch_tree(nodelist): a target block's nodelist is cast and not entered; any
\* other node with a nodelist attribute is entered
patch_tree(T, nodelist, target_blocks, st) ==
    IF nodelist = <<>> THEN st
    ELSE LET id == Head(nodelist)
             node == T.nodes[id]
             st1 == IF node.kind = "BlockNode" /\ node.name \in target_blocks
                    THEN [cls |-> [st.cls EXCEPT ![id] = "PJAXBlockNodeList"],
                          bname |-> [st.bname EXCEPT ![id] = node.name]]
                    ELSE IF HasNodelist(node)
                    THEN patch_tree(T, node.kids, target_blocks, st)
                    ELSE st
         IN patch_tree(T, Tail(nodelist), target_blocks, st1)

\* target_blocks = [n for n in (self.block_name, self.title_block) if n]
TargetBlocks(resp) == {n \in {resp.block_name, resp.title_block} : Truthy(n)}

\* "<title>%s</title>\n" % title
TitleElement(title) ==
    <<"<","t","i","t","l","e",">">> \o FormatS(title) \o <<"<","/","t","i","t","l","e",">","\n">>

\* as ContentFromCaptured, but the title is looked up before the target block
ContentFromCaptured_TitleFirst(resp, context, captured_blocks) ==
    IF Truthy(resp.title_block) /\ resp.title_block \notin DOMAIN captured_blocks
    THEN Raise("TemplateSyntaxError", "PJAX title block", resp.title_block)
    ELSE IF ~Truthy(resp.title_block) /\ Truthy(resp.title_variable)
            /\ resp.title_variable \notin DOMAIN context
    THEN Raise("KeyError", "PJAX title variable", resp.title_variable)
    ELSE IF resp.block_name \notin DOMAIN captured_blocks
    THEN Raise("TemplateSyntaxError", "PJAX block", resp.block_name)
    ELSE LET title == IF Truthy(resp.title_block) THEN captured_blocks[resp.title_block]
                      ELSE IF Truthy(resp.title_variable) THEN context[resp.title_variable]
                      ELSE PyNone
         IN PyStr((IF Truthy(title) THEN TitleElement(title) ELSE <<>>)
                  \o captured_blocks[resp.block_name].s)

\* as ContentFromCaptured, but with `if title is not None` for `if title`
ContentFromCaptured_TitleNotNone(resp, context, captured_blocks) ==
    IF resp.block_name \notin DOMAIN captured_blocks
    THEN Raise("TemplateSyntaxError", "PJAX block", resp.block_name)
    ELSE IF Truthy(resp.title_block) /\ resp.title_block \notin DOMAIN captured_blocks
    THEN Raise("TemplateSyntaxError", "PJAX title block", resp.title_block)
    ELSE IF ~Truthy(resp.title_block) /\ Truthy(resp.title_variable)
            /\ resp.title_variable \notin DOMAIN context
    THEN Raise("KeyError", "PJAX title variable", resp.title_variable)
    ELSE LET title == IF Truthy(resp.title_block) THEN captured_blocks[resp.title_block]
                      ELSE IF Truthy(resp.title_variable) THEN context[resp.title_variable]
                      ELSE PyNone
         IN PyStr((IF title # PyNone THEN TitleElement(title) ELSE <<>>)
                  \o captured_blocks[resp.block_name].s)

\* rendered_content after template.render(context): the target block's captured
\* output is looked up first, then the title, then the two are joined
ContentFromCaptured(resp, context, captured_blocks) ==
    IF resp.block_name \notin DOMAIN captured_blocks
    THEN Raise("TemplateSyntaxError", "PJAX block", resp.block_name)
    ELSE LET target_block_content == captured_blocks[resp.block_name]
             title == IF Truthy(resp.title_block)
                      THEN IF resp.title_block \in DOMAIN captured_blocks
                           THEN captured_blocks[resp.title_block]
                           ELSE Raise("TemplateSyntaxError", "PJAX title block", resp.title_block)
                      ELSE IF Truthy(resp.title_variable)
                      THEN IF resp.title_variable \in DOMAIN context
                           THEN context[resp.title_variable]
                           ELSE Raise("KeyError", "PJAX title variable", resp.title_variable)
                      ELSE PyNone
             title_html == IF Truthy(title) THEN TitleElement(title) ELSE <<>>
         IN IF title.t = "raise" THEN title
            ELSE PyStr(title_html \o target_block_content.s)

\* as rendered_content, but the return value of template.render(context) is
\* what it returns
rendered_content_FullPage(T, resp, st) ==
    LET context == resp.context_data
        rc == [k \in {CapturedKey} |-> EmptyDict]
        st1 == patch_tree(T, T.root, TargetBlocks(resp), st)
        r == NodeList_render(T, T.root, context, rc, st1)
    IN [outcome |-> PyStr(r.out), st |-> st1, captured_blocks |-> r.rc[CapturedKey]]

\* PJAXBlockTemplateResponse.rendered_content on the template T whose nodelists
\* are in state st: the outcome, the nodelists afterwards, the captured blocks
rendered_content(T, resp, st) ==
    LET context == resp.context_data
        rc == [k \in {CapturedKey} |-> EmptyDict]
        st1 == patch_tree(T, T.root, TargetBlocks(resp), st)
        r == NodeList_render(T, T.root, context, rc, st1)
        captured_blocks == r.rc[CapturedKey]
    IN [outcome |-> ContentFromCaptured(resp, context, captured_blocks),
        st |-> st1,
        captured_blocks |-> captured_blocks]

\* TemplateResponse.rendered_content (the response class was left alone): the
\* template rendered with a render context that holds no capture dict
plain_rendered_content(T, resp, st) ==
    LET r == NodeList_render(T, T.root, resp.context_data, [k \in {} |-> EmptyDict], st)
    IN [outcome |-> PyStr(r.out), st |-> st, captured_blocks |-> EmptyDict]

-----------------------------------------------------------------------------
(* The inputs the model draws from *)

TitleVarKey == PyStr(<<"v">>)
ShowKey == PyStr(<<"s","h","o","w">>)
ItemsKey == PyStr(<<"i","t","e","m","s">>)
ParentKey == PyStr(<<"p","a","r","e","n","t">>)

\* a dict from a function whose NoAttr entries stand for absent keys
Dict(f) == [k \in {x \in DOMAIN f : f[x] # NoAttr} |-> f[k]]

Blocks == {PyStr(Content), PyStr(Title), PyStr(Side), PyStr(<<>>)}
TitleVariables == {PyNone, PyStr(<<>>), TitleVarKey}
TitleBlocks == {PyNone, PyStr(Title), PyStr(Content)}

Metas == {EmptyDict} \cup
         {[k \in {HTTP_X_PJAX} |-> PyStr(v)] :
             v \in {<<>>, <<"t","r","u","e">>, <<"f","a","l","s","e">>}}

\* the context data of a view rendered through pjax_block: the title variable
\* absent, falsy or truthy; `show` set and `items` filled, or neither
BlockContexts ==
    {Dict([k \in {TitleVarKey, ShowKey, ItemsKey} |->
              IF k = TitleVarKey THEN v
              ELSE IF k = ShowKey THEN (IF n = 0 THEN NoAttr ELSE PyTrue)
              ELSE PyList([i \in 1..n |-> PyInt(i)])]) :
        v \in {NoAttr, PyNone, PyStr(<<>>), PyStr(<<"W">>), PyInt(0), PyInt(7)},
        n \in {0, MaxLoop}}

PageName == PyStr(<<"p",".","h">>)

Names == {PyStr(<<"a">>), PyStr(<<"a",".","b",".","h">>)}
NameLists == UNION {[1..n -> Names] : n \in 0..MaxNames}

\* what template_name / the parent's get_template_names can be
TemplateVars == {PyNone} \cup Names \cup {PyList(l) : l \in NameLists}
                \cup {PyTuple(l) : l \in NameLists}

PjaxTemplates == {PyNone, PyStr(<<>>), PyStr(<<"x",".","h">>)}

BaseHtml == PyStr(<<"b","a","s","e",".","h","t","m","l">>)
PjaxHtml == PyStr(<<"p","j","a","x",".","h","t","m","l">>)
Parents == {BaseHtml, PyNone, PyStr(<<>>)}
PjaxParents == {PjaxHtml, PyNone}
ContextVars == {ParentKey, TitleVarKey}

\* the context data of a view wrapped by pjaxtend
ParentContexts ==
    {Dict([k \in {ParentKey, TitleVarKey} |-> IF k = ParentKey THEN p ELSE v]) :
        p \in {NoAttr, PyStr(<<"m","i","n","e">>)},
        v \in {NoAttr, PyStr(<<"W">>)}}

-----------------------------------------------------------------------------
(* State machine *)

\* The model follows one decorated view and one request at a time: making a new
\* pjax_block decorator drops the record of the last request, and a request to a
\* view decorated otherwise drops the record of the pjax_block decorator. The
\* shared template object keeps its state throughout.
NoDecorator == [args |-> <<>>, result |-> PyNone, wrapped |-> FALSE]
NoCall == [op |-> "none", cfg |-> PyNone, META |-> EmptyDict, before |-> PyNone, after |-> PyNone]
NoRender == [resp |-> PyNone, outcome |-> PyNone, captured_blocks |-> EmptyDict]

Init ==
    /\ made = NoDecorator
    /\ call = NoCall
    /\ rendered = NoRender
    /\ tree \in DOMAIN Templates
    /\ nlClass = FreshNodelists(Templates[tree]).cls
    /\ nlBlockName = FreshNodelists(Templates[tree]).bname

\* d = pjax_block(block, title_variable, title_block)
MakePjaxBlock ==
    \E block \in Blocks, title_variable \in TitleVariables, title_block \in TitleBlocks :
        /\ made' = [args |-> <<block, title_variable, title_block>>,
                    result |-> pjax_block(block, title_variable, title_block),
                    wrapped |-> FALSE]
        /\ call' = NoCall
        /\ rendered' = NoRender
        /\ UNCHANGED <<tree, nlClass, nlBlockName>>

\* view = d(view): pjax_decorator returns _view
WrapView ==
    /\ made.result.t = "decorator"
    /\ ~made.wrapped
    /\ made' = [made EXCEPT !.wrapped = TRUE]
    /\ UNCHANGED <<call, rendered, tree, nlClass, nlBlockName>>

\* a request to the view wrapped by pjax_block
CallBlockView ==
    /\ made.wrapped
    /\ \E META \in Metas, context_data \in BlockContexts :
          LET resp == TemplateResponse(PageName, context_data) IN
          call' = [op |-> "pjax_block", cfg |-> made.result, META |-> META,
                   before |-> resp, after |-> pjax_block_view(made.result, META, resp)]
    /\ rendered' = NoRender
    /\ UNCHANGED <<made, tree, nlClass, nlBlockName>>

\* the framework reads resp.rendered_content of the response just returned
Render ==
    /\ call.op = "pjax_block"
    /\ rendered = NoRender
    /\ LET T == Templates[tree]
           st == [cls |-> nlClass, bname |-> nlBlockName]
           r == IF call.after.cls = "PJAXBlockTemplateResponse"
                THEN rendered_content(T, call.after, st)
                ELSE plain_rendered_content(T, call.after, st)
       IN /\ rendered' = [resp |-> call.after, outcome |-> r.outcome,
                          captured_blocks |-> r.captured_blocks]
          /\ nlClass' = r.st.cls
          /\ nlBlockName' = r.st.bname
    /\ UNCHANGED <<made, call, tree>>

\* a request to a view wrapped by pjax(pjax_template)
CallPjaxView ==
    /\ \E pjax_template \in PjaxTemplates, META \in Metas, template_name \in TemplateVars :
          LET resp == TemplateResponse(template_name, EmptyDict) IN
          call' = [op |-> "pjax", cfg |-> [pjax_template |-> pjax_template], META |-> META,
                   before |-> resp, after |-> pjax_view(pjax_template, META, resp)]
    /\ rendered' = NoRender
    /\ made' = NoDecorator
    /\ UNCHANGED <<tree, nlClass, nlBlockName>>

\* a request to a view wrapped by pjaxtend(parent, pjax_parent, context_var)
CallPjaxtendView ==
    /\ \E parent \in Parents, pjax_parent \in PjaxParents, context_var \in ContextVars,
          META \in Metas, context_data \in ParentContexts :
          LET resp == TemplateResponse(PageName, context_data) IN
          call' = [op |-> "pjaxtend",
                   cfg |-> [parent |-> parent, pjax_parent |-> pjax_parent,
                            context_var |-> context_var],
                   META |-> META, before |-> resp,
                   after |-> pjaxtend_view(parent, pjax_parent, context_var, META, resp)]
    /\ rendered' = NoRender
    /\ made' = NoDecorator
    /\ UNCHANGED <<tree, nlClass, nlBlockName>>

\* PJAXResponseMixin.get_template_names on a view whose parent class gives `names`
GetTemplateNames ==
    /\ \E pjax_template_name \in PjaxTemplates, META \in Metas, names \in TemplateVars :
          call' = [op |-> "get_template_names",
                   cfg |-> [pjax_template |-> pjax_template_name], META |-> META,
                   before |-> names,
                   after |-> get_template_names(pjax_template_name, META, names)]
    /\ rendered' = NoRender
    /\ made' = NoDecorator
    /\ UNCHANGED <<tree, nlClass, nlBlockName>>

\* decorating with pjax_block, requests to the decorated view, and rendering
Next == MakePjaxBlock \/ WrapView \/ CallBlockView \/ Render

Spec == Init /\ [][Next]_vars

\* the decorators and the mixin, seen at the response they hand back
NextGlue ==
    \/ MakePjaxBlock
    \/ WrapView
    \/ CallBlockView
    \/ CallPjaxView
    \/ CallPjaxtendView
    \/ GetTemplateNames

InitGlue == Init /\ tree = 1

SpecGlue == InitGlue /\ [][NextGlue]_vars

-----------------------------------------------------------------------------
(* What the claims speak of *)

\* the request carried no HTTP_X_PJAX header, or a falsy one
HeaderAbsentOrFalsy(META) ==
    HTTP_X_PJAX \notin DOMAIN META \/ ~Truthy(META[HTTP_X_PJAX])

\* the last response rendered was a PJAXBlockTemplateResponse
PjaxRendered == rendered # NoRender /\ rendered.resp.cls = "PJAXBlockTemplateResponse"

\* ... and rendered_content returned a string
PjaxReturned == PjaxRendered /\ rendered.outcome.t = "str"

\* the block nodes of T that carry the name `name`
BlocksNamed(T, name) ==
    {id \in DOMAIN T.nodes : T.nodes[id].kind = "BlockNode" /\ T.nodes[id].name = name}

\* what the block named `name` gives when the untouched template renders it
BlockOutput(T, name, context) ==
    LET id == CHOOSE i \in BlocksNamed(T, name) : TRUE
    IN NodeList_render(T, T.nodes[id].kids, context, [k \in {} |-> EmptyDict],
                       FreshNodelists(T)).out

\* the title texts the response is configured to show
TitleTexts(T, resp) ==
    {FormatS(resp.context_data[v]) :
        v \in {x \in {resp.title_variable} : Truthy(x) /\ x \in DOMAIN resp.context_data}}
    \cup {BlockOutput(T, b, resp.context_data) :
        b \in {x \in {resp.title_block} : Truthy(x) /\ BlocksNamed(T, x) # {}}}

TitleOpen == <<"<","t","i","t","l","e",">">>
TitleClose == <<"<","/","t","i","t","l","e",">","\n">>

-----------------------------------------------------------------------------
(* Claims *)

\* C1: a PJAX render through pjax_block that returns content returns exactly
\* the optional title element followed by the output of the block named
\* `block`: the full page's text outside that block does not appear.
C1_OnlyTargetBlock ==
    PjaxReturned =>
        LET T == Templates[tree]
            resp == rendered.resp
        IN /\ BlocksNamed(T, resp.block_name) # {}
           /\ \E prefix \in {<<>>} \cup {TitleOpen \o x \o TitleClose : x \in TitleTexts(T, resp)} :
                 rendered.outcome.s = prefix \o BlockOutput(T, resp.block_name, resp.context_data)

\* a title element and the target block were returned from a template that
\* has text outside the target block
C1_Witness ==
    /\ PjaxReturned
    /\ tree = 2
    /\ rendered.resp.block_name = PyStr(Content)
    /\ rendered.outcome.s = TitleOpen \o <<"T">> \o TitleClose \o <<"b">>

\* C2: with the header absent or falsy the pjax and pjax_block wrappers hand
\* back the view's response with class, template_name, block_name,
\* title_variable and title_block as the view left them, and
\* get_template_names gives the parent implementation's names.
C2_FalsyHeaderUnchanged ==
    HeaderAbsentOrFalsy(call.META) =>
        /\ call.op \in {"pjax", "pjax_block"} =>
              /\ call.after.cls = call.before.cls
              /\ call.after.template_name = call.before.template_name
              /\ call.after.block_name = call.before.block_name
              /\ call.after.title_variable = call.before.title_variable
              /\ call.after.title_block = call.before.title_block
        /\ call.op = "get_template_names" => call.after = call.before

\* a pjax_block view answered a request whose header is the empty string
C2_Witness ==
    /\ call.op = "pjax_block"
    /\ HTTP_X_PJAX \in DOMAIN call.META
    /\ call.META[HTTP_X_PJAX] = PyStr(<<>>)
    /\ call.after.cls = "TemplateResponse"
    /\ call.after.block_name = NoAttr

\* C3: with a truthy header, pjax sets template_name to pjax_template when
\* that is truthy and to the pjaxified original name otherwise;
\* get_template_names gives [pjax_template_name] when that is truthy and the
\* pjaxified parent names otherwise.
C3_ExplicitTemplateWins ==
    ~HeaderAbsentOrFalsy(call.META) =>
        /\ call.op = "pjax" =>
              call.after.template_name =
                 IF Truthy(call.cfg.pjax_template) THEN call.cfg.pjax_template
                 ELSE pjaxify_template_var(call.before.template_name)
        /\ call.op = "get_template_names" =>
              call.after =
                 IF Truthy(call.cfg.pjax_template) THEN PyList(<<call.cfg.pjax_template>>)
                 ELSE pjaxify_template_var(call.before)

\* pjax put the configured template over a name it would otherwise derive
C3_Witness ==
    /\ call.op = "pjax"
    /\ ~HeaderAbsentOrFalsy(call.META)
    /\ call.before.template_name = PyStr(<<"a",".","b",".","h">>)
    /\ call.after.template_name = PyStr(<<"x",".","h">>)
    /\ pjaxify_template_var(call.before.template_name) = PyStr(<<"a",".","b","-","p","j","a","x",".","h">>)

\* C4: pjaxtend puts pjax_parent under context_var when the header is truthy,
\* parent when the header is absent or falsy and parent is truthy, and leaves
\* context_data as it was otherwise; no other key is ever changed.
C4_PjaxtendContext ==
    call.op = "pjaxtend" =>
        LET cv == call.cfg.context_var
            old == call.before.context_data
            new == call.after.context_data
        IN /\ ~HeaderAbsentOrFalsy(call.META) =>
                 cv \in DOMAIN new /\ new[cv] = call.cfg.pjax_parent
           /\ HeaderAbsentOrFalsy(call.META) /\ Truthy(call.cfg.parent) =>
                 cv \in DOMAIN new /\ new[cv] = call.cfg.parent
           /\ HeaderAbsentOrFalsy(call.META) /\ ~Truthy(call.cfg.parent) => new = old
           /\ DOMAIN new \ {cv} = DOMAIN old \ {cv}
           /\ \A k \in DOMAIN old \ {cv} : new[k] = old[k]

\* without the header, the parent replaced the value the view had put under
\* context_var, next to another key that stayed
C4_Witness ==
    /\ call.op = "pjaxtend"
    /\ HeaderAbsentOrFalsy(call.META)
    /\ call.cfg.context_var = ParentKey
    /\ DOMAIN call.before.context_data = {ParentKey, TitleVarKey}
    /\ call.before.context_data[ParentKey] = PyStr(<<"m","i","n","e">>)
    /\ call.after.context_data[ParentKey] = BaseHtml
    /\ call.after.context_data[TitleVarKey] = PyStr(<<"W">>)

\* C5: pjax_block(...) raises TypeError exactly when title_variable and
\* title_block are both truthy, at the call that makes the decorator: no view
\* is wrapped and no request answered with such a pair; otherwise the call
\* gives a decorator.
C5_TypeErrorAtCreation ==
    made # NoDecorator =>
        LET both == Truthy(made.args[2]) /\ Truthy(made.args[3]) IN
        /\ both => /\ made.result.t = "raise"
                   /\ made.result.exc = "TypeError"
                   /\ ~made.wrapped
                   /\ call.op # "pjax_block"
        /\ ~both => made.result.t = "decorator"

\* pjax_block was called with both a title variable and a title block
C5_Witness ==
    /\ made # NoDecorator
    /\ Truthy(made.args[2])
    /\ Truthy(made.args[3])
    /\ made.result.t = "raise"

RECURSIVE ReachableByNodelist(_, _)
\* the nodes found from `nodelist` by following `nodelist` attributes, into
\* target blocks too
ReachableByNodelist(T, nodelist) ==
    IF nodelist = <<>> THEN {}
    ELSE LET id == Head(nodelist) IN
         {id} \cup (IF HasNodelist(T.nodes[id]) THEN ReachableByNodelist(T, T.nodes[id].kids)
                    ELSE {})
              \cup ReachableByNodelist(T, Tail(nodelist))

\* the target blocks of `resp` among the nodes reachable by nodelist attributes
ReachableTargets(T, resp) ==
    {id \in ReachableByNodelist(T, T.root) :
        T.nodes[id].kind = "BlockNode" /\ T.nodes[id].name \in TargetBlocks(resp)}

\* C6: after the walk of a PJAX render every target block reachable through
\* nodelist attributes has its nodelist cast to PJAXBlockNodeList with
\* block_name set to its name, a target block inside another one included.
C6_EveryTargetPatched ==
    PjaxRendered =>
        \A id \in ReachableTargets(Templates[tree], rendered.resp) :
            /\ nlClass[id] = "PJAXBlockNodeList"
            /\ nlBlockName[id] = Templates[tree].nodes[id].name

\* C7: rendered_content raises TemplateSyntaxError about the target block when
\* nothing was captured for block_name; else TemplateSyntaxError about the
\* title block when title_block is set and nothing was captured for it; else
\* KeyError when title_block is unset, title_variable is set and the context
\* lacks it. It returns content only when none of these is missing.
C7_MissingPieceRaises ==
    PjaxRendered =>
        LET resp == rendered.resp
            captured == DOMAIN rendered.captured_blocks
            noTarget == resp.block_name \notin captured
            noTitleBlock == Truthy(resp.title_block) /\ resp.title_block \notin captured
            noTitleVar == /\ ~Truthy(resp.title_block)
                          /\ Truthy(resp.title_variable)
                          /\ resp.title_variable \notin DOMAIN resp.context_data
        IN /\ noTarget =>
                 rendered.outcome = Raise("TemplateSyntaxError", "PJAX block", resp.block_name)
           /\ ~noTarget /\ noTitleBlock =>
                 rendered.outcome =
                     Raise("TemplateSyntaxError", "PJAX title block", resp.title_block)
           /\ ~noTarget /\ ~noTitleBlock /\ noTitleVar =>
                 rendered.outcome =
                     Raise("KeyError", "PJAX title variable", resp.title_variable)
           /\ rendered.outcome.t = "str" => ~noTarget /\ ~noTitleBlock /\ ~noTitleVar

\* neither the target block nor the title block was captured, and the error
\* is the one about the target block
C7_Witness ==
    /\ PjaxRendered
    /\ rendered.resp.block_name \notin DOMAIN rendered.captured_blocks
    /\ Truthy(rendered.resp.title_block)
    /\ rendered.resp.title_block \notin DOMAIN rendered.captured_blocks
    /\ rendered.outcome.t = "raise"
    /\ rendered.outcome.about = "PJAX block"

\* C8: the title is the captured title_block when title_block is set, else
\* the context value of title_variable when that is set, else none; the result
\* is the title element followed by the target block when the title is truthy
\* and the target block alone when it is not.
C8_TitleOnlyWhenTruthy ==
    PjaxReturned =>
        LET resp == rendered.resp
            title == IF Truthy(resp.title_block)
                     THEN rendered.captured_blocks[resp.title_block]
                     ELSE IF Truthy(resp.title_variable)
                     THEN resp.context_data[resp.title_variable]
                     ELSE PyNone
            content == rendered.captured_blocks[resp.block_name].s
        IN /\ Truthy(title) =>
                 rendered.outcome.s = TitleOpen \o FormatS(title) \o TitleClose \o content
           /\ ~Truthy(title) => rendered.outcome.s = content

\* the title block was captured empty and the result is the target block alone
C8_Witness ==
    /\ PjaxReturned
    /\ rendered.resp.title_block = PyStr(Title)
    /\ rendered.captured_blocks[PyStr(Title)] = PyStr(<<>>)
    /\ rendered.resp.block_name = PyStr(Content)
    /\ rendered.outcome = PyStr(<<"b">>)

\* what the response last rendered gives on a freshly parsed template
OutcomeOnFreshTemplate ==
    LET T == Templates[tree] IN
    IF rendered.resp.cls = "PJAXBlockTemplateResponse"
    THEN rendered_content(T, rendered.resp, FreshNodelists(T)).outcome
    ELSE plain_rendered_content(T, rendered.resp, FreshNodelists(T)).outcome

\* C9: patching is invisible across the requests that share the template
\* object: whatever was rendered before, a render gives what the same response
\* gives on an unpatched template.
C9_PatchingInvisible ==
    rendered # NoRender => rendered.outcome = OutcomeOnFreshTemplate

\* The parts of C9 that do not depend on which blocks a walk reaches: a
\* non-PJAX render of a patched template gives the full page of the unpatched
\* one, ...
NonPjaxRenderUnaffected ==
    rendered # NoRender /\ rendered.resp.cls = "TemplateResponse" =>
        /\ rendered.outcome = OutcomeOnFreshTemplate
        /\ rendered.captured_blocks = EmptyDict

\* ... and what a PJAX render captured is what those blocks give under the
\* context of that same render.
CapturedInSameRender ==
    PjaxRendered =>
        \A name \in DOMAIN rendered.captured_blocks :
            /\ BlocksNamed(Templates[tree], name) # {}
            /\ rendered.captured_blocks[name] =
                  PyStr(BlockOutput(Templates[tree], name, rendered.resp.context_data))

\* a non-PJAX render of a template that earlier PJAX renders have patched
PatchedPlainRender ==
    /\ rendered # NoRender
    /\ rendered.resp.cls = "TemplateResponse"
    /\ \E id \in DOMAIN nlClass : nlClass[id] = "PJAXBlockNodeList"

\* The walk does cast every target block that no other target block encloses.
RECURSIVE ReachableOutsideTargets(_, _, _)
ReachableOutsideTargets(T, nodelist, target_blocks) ==
    IF nodelist = <<>> THEN {}
    ELSE LET id == Head(nodelist)
             node == T.nodes[id]
         IN {id} \cup (IF HasNodelist(node)
                          /\ ~(node.kind = "BlockNode" /\ node.name \in target_blocks)
                       THEN ReachableOutsideTargets(T, node.kids, target_blocks)
                       ELSE {})
                 \cup ReachableOutsideTargets(T, Tail(nodelist), target_blocks)

OutermostTargetsPatched ==
    PjaxRendered =>
        LET T == Templates[tree]
            targets == TargetBlocks(rendered.resp)
        IN \A id \in ReachableOutsideTargets(T, T.root, targets) :
              T.nodes[id].kind = "BlockNode" /\ T.nodes[id].name \in targets =>
                 /\ nlClass[id] = "PJAXBlockNodeList"
                 /\ nlBlockName[id] = T.nodes[id].name

====
